---- MODULE Spec2Model ----
(***************************************************************************)
(* Window management of the portfolio desktop (src/script.js, lines        *)
(* 103-285): the open-window set, the cascade counter, the saved geometry  *)
(* of maximized windows, the drag controller, the dock indicators and the  *)
(* deferred callback of minimizeWindow; and of the thought generator       *)
(* (lines 916-960): the deck of indices and the list of cards.             *)
(*                                                                         *)
(* A CSS length such as "10vh" or "70px" is the pair <<10, "vh">>; the     *)
(* empty inline style "" is <<0, "">>.  A z-index is 100, 101, or 0 for    *)
(* the empty inline style.                                                 *)
(***************************************************************************)
EXTENDS Integers, FiniteSets, Sequences, TLC

\* Bounds of the model: the cap on the cascade counter and on the number of
\* minimize callbacks pending at the same time, for the two-window page
\* (Spec), for the one-window page (SpecWindow) and for the page with the
\* five windows (SpecDesktop).
MaxCascade == 2
MaxPending == 1
MaxCascadeWindow == 2
MaxPendingWindow == 2
MaxCascadeDesktop == 6
MaxPendingDesktop == 1

\* Bounds of the thought generator: the number of thoughts (30 in the
\* script), the callbacks pending at the same time and the generations
\* completed in a run.
NumThoughts == 3
MaxSpins == 2
MaxGenerations == 7

\* The five window elements the script names, and an id no element has.
KnownWindows == {"filesWindow", "terminalWindow", "aboutWindow", "thoughtsWindow", "statsWindow"}
NoSuchWindow == "noSuchWindow"

\* The window elements of the page Spec runs on, and of the page SpecWindow
\* runs on.
PageWindows == {"filesWindow", "aboutWindow"}
OneWindow == {"statsWindow"}

\* The dock icons that have an element, and the window each one stands for.
DockIconIds == {"filesIcon", "aboutIcon", "thoughtsIcon", "statsIcon"}
windowOfIcon(icon) ==
    CASE icon = "filesIcon" -> "filesWindow"
      [] icon = "aboutIcon" -> "aboutWindow"
      [] icon = "thoughtsIcon" -> "thoughtsWindow"
      [] icon = "statsIcon" -> "statsWindow"

\* Inputs of the pointer events: pointer positions (clientX, clientY), grab
\* offsets (pointer minus the window's top-left corner at pointer-down) and
\* viewport sizes (innerWidth, innerHeight).  Spec draws from PagePointers,
\* PageGrabOffsets and PageViewports, SpecFocus from FocusPointers,
\* FocusGrabOffsets and PageViewports, SpecWindow from Pointers, GrabOffsets and Viewports.
PagePointers == {<<500, 300>>}
FocusPointers == {<<600, 900>>}
FocusGrabOffsets == {<<30, 10>>}
PageGrabOffsets == {<<0, 0>>}
PageViewports == {<<1000, 800>>}
Pointers == {<<0, 0>>, <<500, 300>>, <<5000, 5000>>}
GrabOffsets == {<<0, 0>>, <<30, 10>>}
Viewports == {<<1000, 800>>, <<150, 60>>}

Null == "null"
EmptyLen == <<0, "">>
EmptyStyle == [display |-> "", top |-> EmptyLen, left |-> EmptyLen,
               width |-> EmptyLen, height |-> EmptyLen, zIndex |-> 0]

VARIABLES
    dom,            \* ids of the window elements of the page
    activeWindows,  \* the open set
    windowStates,   \* saved geometry, a function on the ids that have one
    cascadeCount,
    classList,      \* per window: subset of {"active", "maximized"}
    style,          \* per window: its inline style
    dockIcons,      \* the dock icons that carry class "active"
    isDragging,
    currentWindow,
    offset,
    timeouts,       \* per window: pending callbacks of minimizeWindow
    lastOp,         \* history: the handler that ran last, <<name, id>>, or off
    opened,         \* history: ids whose last lifecycle call was openWindow
    trip,           \* history: a maximize/restore round trip under way
    before,         \* history: what the last handler found when it started
    placements,     \* history: windows entered into the open set since it was last empty
    availableIndices,  \* the deck of the thought generator, a sequence of indices
    thoughtsList,   \* the cards of #thoughtsList, newest first, each the index of its thought
    spinning,       \* #diceSpinner carries class spinning
    spins,          \* generateThought callbacks pending
    generated       \* history: the indices selected so far, oldest first

progVars == <<dom, activeWindows, windowStates, cascadeCount, classList, style,
              dockIcons, isDragging, currentWindow, offset, timeouts>>
vars == <<dom, activeWindows, windowStates, cascadeCount, classList, style,
          dockIcons, isDragging, currentWindow, offset, timeouts,
          lastOp, opened, trip, before, placements,
          availableIndices, thoughtsList, spinning, spins, generated>>
thoughtVars == <<availableIndices, thoughtsList, spinning, spins, generated>>
windowVars == <<dom, activeWindows, windowStates, cascadeCount, classList, style,
                dockIcons, isDragging, currentWindow, offset, timeouts,
                lastOp, opened, trip, before, placements>>

NoTrip == [id |-> Null, g |-> [top |-> EmptyLen, left |-> EmptyLen,
                              width |-> EmptyLen, height |-> EmptyLen],
           n |-> 0, moved |-> FALSE]

\* The geometry of an inline style: top, left, width, height.
geometry(s) == [top |-> s.top, left |-> s.left, width |-> s.width, height |-> s.height]

Max(a, b) == IF a >= b THEN a ELSE b
Min(a, b) == IF a <= b THEN a ELSE b

\* lastOp is recorded when trace is set, and stays <<"off", Null>> otherwise.
InitOn(page, trace) ==
    /\ dom = page
    /\ activeWindows = {}
    /\ windowStates = [w \in {} |-> NoTrip.g]
    /\ cascadeCount = 0
    /\ classList = [w \in KnownWindows |-> {}]
    /\ style = [w \in KnownWindows |-> EmptyStyle]
    /\ dockIcons = {}
    /\ isDragging = FALSE
    /\ currentWindow = Null
    /\ offset = <<0, 0>>
    /\ timeouts = [w \in KnownWindows |-> 0]
    /\ lastOp = (IF trace THEN <<"load", Null>> ELSE <<"off", Null>>)
    /\ opened = {}
    /\ trip = NoTrip
    /\ before = [again |-> FALSE, open |-> {}, dock |-> {}, max |-> {},
                 geometry |-> [w \in page |-> NoTrip.g]]
    /\ placements = 0
    /\ availableIndices = <<>>
    /\ thoughtsList = <<>>
    /\ spinning = FALSE
    /\ spins = 0
    /\ generated = <<>>

Init == InitOn(PageWindows, FALSE)
InitWindow == InitOn(OneWindow, TRUE)

(***************************************************************************)
(* Helpers of the lifecycle functions.                                     *)
(***************************************************************************)

\* Variant: the counter is never reset.
neverResets(aw, c) == c

\* openWindow, lines 114-117: the counter the placement uses.
resetCascade(aw, c) == IF Cardinality(aw) = 0 THEN 0 ELSE c

\* Variant: every call places the window.
alwaysPlaces(aw, windowId) == TRUE

\* openWindow, line 119: whether this call places the window.
needsPlacement(aw, windowId) == windowId \notin aw

\* Variant: the shift of 3vh the comment at line 122 announces.
cascadeTopByThree(c) == <<10 + (c * 3), "vh">>

\* openWindow, lines 130-131 and 136-137.
cascadeTop(c) == <<10 + (c * 4), "vh">>
cascadeLeft(c) == <<20 + (c * 3), "vw">>

\* Variant: the size is not written.
placedPositionOnly(s, c) == [s EXCEPT !.top = cascadeTop(c), !.left = cascadeLeft(c)]

\* openWindow, lines 136-139.
placed(s, c) ==
    [s EXCEPT !.top = cascadeTop(c), !.left = cascadeLeft(c),
              !.width = <<60, "vw">>, !.height = <<75, "vh">>]

\* Variant: the other windows are not put back to 100.
bringToFrontNoReset(st, windowId) ==
    [w \in KnownWindows |->
        IF w \in dom /\ w = windowId THEN [st[w] EXCEPT !.zIndex = 101] ELSE st[w]]

\* bringToFront: every window element gets 100, then the target 101.
bringToFront(st, windowId) ==
    [w \in KnownWindows |->
        IF w \notin dom THEN st[w]
        ELSE [st[w] EXCEPT !.zIndex = IF w = windowId THEN 101 ELSE 100]]

\* Variant: the icons are not cleared first.
updateDockIconsNoClear(icons, aw) ==
    icons \cup {i \in DockIconIds : windowOfIcon(i) \in aw}

\* updateDockIcons: clear every icon, then mark the icons of the open windows
\* (terminalIcon has no element).
updateDockIcons(icons, aw) ==
    LET cleared == icons \ DockIconIds
    IN  cleared \cup {i \in DockIconIds : windowOfIcon(i) \in aw}

\* Variant: the snapshot misses left.
snapshotNoLeft(s) == [top |-> s.top, left |-> EmptyLen, width |-> s.width, height |-> s.height]

\* toggleMaximize, lines 187-192: the snapshot of the inline geometry.
snapshot(s) == [top |-> s.top, left |-> s.left, width |-> s.width, height |-> s.height]

\* toggleMaximize, line 184: Object.assign(win.style, saved).
assignStyle(s, saved) ==
    [s EXCEPT !.top = saved.top, !.left = saved.left,
              !.width = saved.width, !.height = saved.height]

\* Variant: the write drops the other windows' entries.
putStateOnly(ws, windowId, saved) == [k \in {windowId} |-> saved]

\* windowStates[windowId] = saved.
putState(ws, windowId, saved) ==
    [k \in (DOMAIN ws) \cup {windowId} |-> IF k = windowId THEN saved ELSE ws[k]]

(***************************************************************************)
(* The lifecycle functions, on the program's variables.                    *)
(***************************************************************************)

\* Variant: the counter is reset before the element is looked up.
openResetsFirst(windowId) ==
    LET c == resetCascade(activeWindows, cascadeCount)
        fresh == needsPlacement(activeWindows, windowId)
    IN  IF windowId \notin dom
        THEN /\ cascadeCount' = c
             /\ UNCHANGED <<dom, activeWindows, windowStates, classList, style,
                            dockIcons, isDragging, currentWindow, offset, timeouts>>
        ELSE /\ cascadeCount' = (IF fresh THEN c + 1 ELSE c)
             /\ classList' = [classList EXCEPT ![windowId] =
                    ((IF fresh THEN @ \ {"maximized"} ELSE @) \cup {"active"})]
             /\ style' = bringToFront(
                    [style EXCEPT ![windowId] =
                        [(IF fresh THEN placed(@, c) ELSE @) EXCEPT !.display = "flex"]],
                    windowId)
             /\ activeWindows' = activeWindows \cup {windowId}
             /\ dockIcons' = updateDockIcons(dockIcons, activeWindows')
             /\ UNCHANGED <<dom, windowStates, isDragging, currentWindow, offset, timeouts>>

\* Variant: class maximized is not removed.
openKeepsMaximized(windowId) ==
    IF windowId \notin dom THEN UNCHANGED progVars
    ELSE
      LET c == resetCascade(activeWindows, cascadeCount)
          fresh == needsPlacement(activeWindows, windowId)
      IN  /\ cascadeCount' = (IF fresh THEN c + 1 ELSE c)
          /\ classList' = [classList EXCEPT ![windowId] = @ \cup {"active"}]
          /\ style' = bringToFront(
                 [style EXCEPT ![windowId] =
                     [(IF fresh THEN placed(@, c) ELSE @) EXCEPT !.display = "flex"]],
                 windowId)
          /\ activeWindows' = activeWindows \cup {windowId}
          /\ dockIcons' = updateDockIcons(dockIcons, activeWindows')
          /\ UNCHANGED <<dom, windowStates, isDragging, currentWindow, offset, timeouts>>

openWindow(windowId) ==
    IF windowId \notin dom THEN UNCHANGED progVars
    ELSE
      LET c == resetCascade(activeWindows, cascadeCount)
          fresh == needsPlacement(activeWindows, windowId)
          st1 == IF fresh THEN placed(style[windowId], c) ELSE style[windowId]
          st2 == [st1 EXCEPT !.display = "flex"]
      IN  /\ cascadeCount' = (IF fresh THEN c + 1 ELSE c)
          /\ classList' = [classList EXCEPT ![windowId] =
                 ((IF fresh THEN @ \ {"maximized"} ELSE @) \cup {"active"})]
          /\ style' = bringToFront([style EXCEPT ![windowId] = st2], windowId)
          /\ activeWindows' = activeWindows \cup {windowId}
          /\ dockIcons' = updateDockIcons(dockIcons, activeWindows')
          /\ UNCHANGED <<dom, windowStates, isDragging, currentWindow, offset, timeouts>>

\* Variant: the snapshot of the window is dropped.
closeForgets(windowId) ==
    IF windowId \notin dom THEN UNCHANGED progVars
    ELSE
      /\ classList' = [classList EXCEPT ![windowId] = @ \ {"active"}]
      /\ style' = [style EXCEPT ![windowId].display = "none"]
      /\ activeWindows' = activeWindows \ {windowId}
      /\ dockIcons' = updateDockIcons(dockIcons, activeWindows')
      /\ windowStates' = [k \in (DOMAIN windowStates) \ {windowId} |-> windowStates[k]]
      /\ UNCHANGED <<dom, cascadeCount, isDragging, currentWindow, offset, timeouts>>

\* Variant: the closed window goes back to the baseline.
closeDemotes(windowId) ==
    IF windowId \notin dom THEN UNCHANGED progVars
    ELSE
      /\ classList' = [classList EXCEPT ![windowId] = @ \ {"active"}]
      /\ style' = [style EXCEPT ![windowId].display = "none", ![windowId].zIndex = 100]
      /\ activeWindows' = activeWindows \ {windowId}
      /\ dockIcons' = updateDockIcons(dockIcons, activeWindows')
      /\ UNCHANGED <<dom, windowStates, cascadeCount, isDragging, currentWindow,
                     offset, timeouts>>

closeWindow(windowId) ==
    IF windowId \notin dom THEN UNCHANGED progVars
    ELSE
      /\ classList' = [classList EXCEPT ![windowId] = @ \ {"active"}]
      /\ style' = [style EXCEPT ![windowId].display = "none"]
      /\ activeWindows' = activeWindows \ {windowId}
      /\ dockIcons' = updateDockIcons(dockIcons, activeWindows')
      /\ UNCHANGED <<dom, windowStates, cascadeCount, isDragging, currentWindow,
                     offset, timeouts>>

\* Variant: a hidden window is shown again.
minimizeToggles(windowId) ==
    IF windowId \notin dom THEN UNCHANGED progVars
    ELSE
      /\ style' = [style EXCEPT ![windowId].display =
                      IF @ = "none" THEN "flex" ELSE "none"]
      /\ timeouts' = [timeouts EXCEPT ![windowId] = @ + 1]
      /\ activeWindows' = activeWindows \ {windowId}
      /\ dockIcons' = updateDockIcons(dockIcons, activeWindows')
      /\ UNCHANGED <<dom, windowStates, cascadeCount, classList, isDragging,
                     currentWindow, offset>>

\* Variant: the id stays in the open set.
minimizeKeepsOpen(windowId) ==
    IF windowId \notin dom THEN UNCHANGED progVars
    ELSE
      /\ style' = [style EXCEPT ![windowId].display = "none"]
      /\ timeouts' = [timeouts EXCEPT ![windowId] = @ + 1]
      /\ dockIcons' = updateDockIcons(dockIcons, activeWindows)
      /\ UNCHANGED <<dom, activeWindows, windowStates, cascadeCount, classList,
                     isDragging, currentWindow, offset>>

minimizeWindow(windowId) ==
    IF windowId \notin dom THEN UNCHANGED progVars
    ELSE
      /\ style' = [style EXCEPT ![windowId].display = "none"]
      /\ timeouts' = [timeouts EXCEPT ![windowId] = @ + 1]
      /\ activeWindows' = activeWindows \ {windowId}
      /\ dockIcons' = updateDockIcons(dockIcons, activeWindows')
      /\ UNCHANGED <<dom, windowStates, cascadeCount, classList, isDragging,
                     currentWindow, offset>>

\* Variant: the callback also hides the window.
minimizeCallbackHides(windowId) ==
    /\ timeouts[windowId] > 0
    /\ timeouts' = [timeouts EXCEPT ![windowId] = @ - 1]
    /\ classList' = [classList EXCEPT ![windowId] = @ \ {"active"}]
    /\ style' = [style EXCEPT ![windowId].display = "none"]
    /\ UNCHANGED <<dom, activeWindows, windowStates, cascadeCount, dockIcons,
                   isDragging, currentWindow, offset>>

\* The callback minimizeWindow schedules (lines 166-170).
minimizeCallback(windowId) ==
    /\ timeouts[windowId] > 0
    /\ timeouts' = [timeouts EXCEPT ![windowId] = @ - 1]
    /\ classList' = [classList EXCEPT ![windowId] = @ \ {"active"}]
    /\ UNCHANGED <<dom, activeWindows, windowStates, cascadeCount, style, dockIcons,
                   isDragging, currentWindow, offset>>

\* Variant: the restore drops the snapshot.
toggleMaximizeClears(windowId) ==
    IF windowId \notin dom THEN UNCHANGED progVars
    ELSE IF "maximized" \in classList[windowId]
    THEN
      /\ classList' = [classList EXCEPT ![windowId] = @ \ {"maximized"}]
      /\ style' = IF windowId \in DOMAIN windowStates
                     THEN [style EXCEPT ![windowId] = assignStyle(@, windowStates[windowId])]
                     ELSE style
      /\ windowStates' = [k \in (DOMAIN windowStates) \ {windowId} |-> windowStates[k]]
      /\ UNCHANGED <<dom, activeWindows, cascadeCount, dockIcons,
                     isDragging, currentWindow, offset, timeouts>>
    ELSE
      /\ windowStates' = putState(windowStates, windowId, snapshot(style[windowId]))
      /\ classList' = [classList EXCEPT ![windowId] = @ \cup {"maximized"}]
      /\ UNCHANGED <<dom, activeWindows, cascadeCount, style, dockIcons,
                     isDragging, currentWindow, offset, timeouts>>

toggleMaximize(windowId) ==
    IF windowId \notin dom THEN UNCHANGED progVars
    ELSE IF "maximized" \in classList[windowId]
    THEN
      /\ classList' = [classList EXCEPT ![windowId] = @ \ {"maximized"}]
      /\ style' = IF windowId \in DOMAIN windowStates
                     THEN [style EXCEPT ![windowId] = assignStyle(@, windowStates[windowId])]
                     ELSE style
      /\ UNCHANGED <<dom, activeWindows, windowStates, cascadeCount, dockIcons,
                     isDragging, currentWindow, offset, timeouts>>
    ELSE
      /\ windowStates' = putState(windowStates, windowId, snapshot(style[windowId]))
      /\ classList' = [classList EXCEPT ![windowId] = @ \cup {"maximized"}]
      /\ UNCHANGED <<dom, activeWindows, cascadeCount, style, dockIcons,
                     isDragging, currentWindow, offset, timeouts>>

(***************************************************************************)
(* The drag controller (lines 221-253).                                    *)
(***************************************************************************)

\* Variant: no lower clamp.
clampLeftUpperOnly(x, innerWidth) == Min(x, innerWidth - 100)

\* Variant of clampTop: the lower bound only.
clampTopLowerOnly(y, innerHeight) == Max(28, y)

\* mousemove, lines 246-247.
clampLeft(x, innerWidth) == Max(70, Min(x, innerWidth - 100))
clampTop(y, innerHeight) == Max(28, Min(y, innerHeight - 50))

\* Variant: the maximized flag is not looked at.
moveIgnoredUnlessIdle ==
    \/ ~isDragging
    \/ currentWindow = Null

\* mousemove, line 240: the early return.
moveIgnored ==
    \/ ~isDragging
    \/ currentWindow = Null
    \/ "maximized" \in classList[currentWindow]

\* Variant: the control buttons start a drag as well.
mousedownAnywhere(windowId, onControl, grab) ==
    /\ isDragging' = TRUE
    /\ currentWindow' = windowId
    /\ offset' = grab
    /\ style' = bringToFront(style, windowId)
    /\ UNCHANGED <<dom, activeWindows, windowStates, cascadeCount, classList,
                   dockIcons, timeouts>>

\* A header's mousedown handler.  onControl: the event's target carries class
\* window-control.  grab is e.clientX - rect.left, e.clientY - rect.top.
mousedown(windowId, onControl, grab) ==
    IF onControl THEN UNCHANGED progVars
    ELSE
      /\ isDragging' = TRUE
      /\ currentWindow' = windowId
      /\ offset' = grab
      /\ style' = bringToFront(style, windowId)
      /\ UNCHANGED <<dom, activeWindows, windowStates, cascadeCount, classList,
                     dockIcons, timeouts>>

\* A mousedown on a window outside its header: listeners are registered on
\* the .window-header elements only (line 225), so no handler runs.
mousedownBody(windowId) == UNCHANGED progVars

\* The document's mousemove handler, for pointer p in viewport v.
mousemove(p, v) ==
    IF moveIgnored THEN UNCHANGED progVars
    ELSE
      /\ style' = [style EXCEPT
             ![currentWindow].left = <<clampLeft(p[1] - offset[1], v[1]), "px">>,
             ![currentWindow].top = <<clampTop(p[2] - offset[2], v[2]), "px">>]
      /\ UNCHANGED <<dom, activeWindows, windowStates, cascadeCount, classList,
                     dockIcons, isDragging, currentWindow, offset, timeouts>>

\* Variant: the target is kept.
mouseupKeepsTarget ==
    /\ isDragging' = FALSE
    /\ UNCHANGED <<dom, activeWindows, windowStates, cascadeCount, classList, style,
                   dockIcons, currentWindow, offset, timeouts>>

\* The document's mouseup handler.
mouseup ==
    /\ isDragging' = FALSE
    /\ currentWindow' = Null
    /\ UNCHANGED <<dom, activeWindows, windowStates, cascadeCount, classList, style,
                   dockIcons, offset, timeouts>>

(***************************************************************************)
(* History variables.                                                      *)
(***************************************************************************)

\* The value lastOp takes when handler op runs.
record(op) == IF lastOp[1] = "off" THEN lastOp ELSE op

\* A maximize/restore round trip: it starts when toggleMaximize maximizes an
\* open window (n = 1, g the geometry before the call), survives pointer
\* events (moved: a pointer-move arrived while the window was the drag
\* target), ends with the next toggleMaximize of the same window (n = 2),
\* and is forgotten by every other handler.  Recorded when lastOp is.
tripOnToggle(windowId) ==
    IF lastOp[1] = "off" \/ windowId \notin dom THEN NoTrip
    ELSE IF trip.n = 1 /\ trip.id = windowId THEN [trip EXCEPT !.n = 2]
    ELSE IF windowId \in activeWindows /\ "maximized" \notin classList[windowId]
    THEN [id |-> windowId, g |-> geometry(style[windowId]), n |-> 1, moved |-> FALSE]
    ELSE NoTrip
tripOnPointer == IF trip.n = 1 THEN trip ELSE NoTrip
tripOnMove ==
    IF trip.n = 1
    THEN [trip EXCEPT !.moved = @ \/ (isDragging /\ currentWindow = trip.id)]
    ELSE NoTrip

\* The value placements takes in a step: 0 when the step leaves the open set
\* empty, one more when the step enters a window into the open set (the first
\* after the set was empty counts 1), and the same otherwise.
counted ==
    IF activeWindows' = {} THEN 0
    ELSE IF activeWindows' \ activeWindows # {}
    THEN (IF activeWindows = {} THEN 1 ELSE placements + 1)
    ELSE placements

\* What handler op finds when it starts: whether the handler that ran before
\* it was op as well, the open set, the dock icons that carry "active", the
\* windows that carry "maximized" and every window's geometry.  Recorded
\* when lastOp is.
found(op) ==
    IF lastOp[1] = "off" THEN before
    ELSE [again |-> (lastOp = op), open |-> activeWindows, dock |-> dockIcons,
          max |-> {w \in dom : "maximized" \in classList[w]},
          geometry |-> [w \in dom |-> geometry(style[w])]]

(***************************************************************************)
(* The actions: one per handler or public function.                        *)
(***************************************************************************)

\* The ids a call is made with: the page's windows and the unknown ids.
CallIds(unknown) == dom \cup unknown

\* A window the browser renders, so that its header receives pointer events.
rendered(windowId) == windowId \in dom /\ style[windowId].display = "flex"

RECURSIVE pendingIn(_)
pendingIn(ws) ==
    IF ws = {} THEN 0
    ELSE LET w == CHOOSE x \in ws : TRUE IN timeouts[w] + pendingIn(ws \ {w})

\* The caps: a placement needs a counter below maxCascade, a minimize of a
\* window element fewer than maxPending pending callbacks.
mayPlace(windowId, maxCascade) ==
    \/ windowId \notin dom
    \/ windowId \in activeWindows
    \/ activeWindows = {}
    \/ cascadeCount < maxCascade
maySchedule(windowId, maxPending) ==
    windowId \in dom => pendingIn(dom) < maxPending

Open(windowId, maxCascade) ==
    /\ mayPlace(windowId, maxCascade)
    /\ openWindow(windowId)
    /\ lastOp' = record(<<"openWindow", windowId>>)
    /\ opened' = (IF windowId \in dom THEN opened \cup {windowId} ELSE opened)
    /\ trip' = NoTrip
    /\ before' = found(<<"openWindow", windowId>>)
    /\ placements' = counted
    /\ UNCHANGED thoughtVars

Close(windowId) ==
    /\ closeWindow(windowId)
    /\ lastOp' = record(<<"closeWindow", windowId>>)
    /\ opened' = opened \ {windowId}
    /\ trip' = NoTrip
    /\ before' = found(<<"closeWindow", windowId>>)
    /\ placements' = counted
    /\ UNCHANGED thoughtVars

Minimize(windowId, maxPending) ==
    /\ maySchedule(windowId, maxPending)
    /\ minimizeWindow(windowId)
    /\ lastOp' = record(<<"minimizeWindow", windowId>>)
    /\ opened' = opened \ {windowId}
    /\ trip' = NoTrip
    /\ before' = found(<<"minimizeWindow", windowId>>)
    /\ placements' = counted
    /\ UNCHANGED thoughtVars

MinimizeCallback(windowId) ==
    /\ minimizeCallback(windowId)
    /\ lastOp' = record(<<"minimizeCallback", windowId>>)
    /\ trip' = NoTrip
    /\ before' = found(<<"minimizeCallback", windowId>>)
    /\ placements' = counted
    /\ UNCHANGED thoughtVars
    /\ UNCHANGED opened

ToggleMaximize(windowId) ==
    /\ toggleMaximize(windowId)
    /\ lastOp' = record(<<"toggleMaximize", windowId>>)
    /\ trip' = tripOnToggle(windowId)
    /\ before' = found(<<"toggleMaximize", windowId>>)
    /\ placements' = counted
    /\ UNCHANGED thoughtVars
    /\ UNCHANGED opened

\* Variant: the click opens the window without asking the open set.
dockClickOpens(icon) == openWindow(windowOfIcon(icon))

\* A dock icon's click handler (lines 258-285).
dockClick(icon) ==
    IF windowOfIcon(icon) \in activeWindows
    THEN minimizeWindow(windowOfIcon(icon))
    ELSE openWindow(windowOfIcon(icon))

DockClick(icon, maxCascade, maxPending) ==
    LET w == windowOfIcon(icon)
    IN  /\ w \in dom
        /\ IF w \in activeWindows THEN maySchedule(w, maxPending)
                                  ELSE mayPlace(w, maxCascade)
        /\ dockClick(icon)
        /\ lastOp' = record(<<"dockClick", w>>)
        /\ opened' = (IF w \in activeWindows THEN opened \ {w} ELSE opened \cup {w})
        /\ trip' = NoTrip
        /\ before' = found(<<"dockClick", w>>)
        /\ placements' = counted
        /\ UNCHANGED thoughtVars

MouseDown(windowId, onControl, grab) ==
    /\ rendered(windowId)
    /\ mousedown(windowId, onControl, grab)
    /\ lastOp' = record(<<"mousedown", windowId>>)
    /\ trip' = tripOnPointer
    /\ before' = found(<<"mousedown", windowId>>)
    /\ placements' = counted
    /\ UNCHANGED thoughtVars
    /\ UNCHANGED opened

MouseDownBody(windowId) ==
    /\ rendered(windowId)
    /\ mousedownBody(windowId)
    /\ lastOp' = record(<<"mousedownBody", windowId>>)
    /\ trip' = tripOnPointer
    /\ before' = found(<<"mousedownBody", windowId>>)
    /\ placements' = counted
    /\ UNCHANGED thoughtVars
    /\ UNCHANGED opened

MouseMove(p, v) ==
    /\ mousemove(p, v)
    /\ lastOp' = record(<<"mousemove", currentWindow>>)
    /\ trip' = tripOnMove
    /\ before' = found(<<"mousemove", currentWindow>>)
    /\ placements' = counted
    /\ UNCHANGED thoughtVars
    /\ UNCHANGED opened

MouseUp ==
    /\ mouseup
    /\ lastOp' = record(<<"mouseup", Null>>)
    /\ trip' = tripOnPointer
    /\ before' = found(<<"mouseup", Null>>)
    /\ placements' = counted
    /\ UNCHANGED thoughtVars
    /\ UNCHANGED opened

NextOn(unknown, pointers, grabs, viewports, maxCascade, maxPending) ==
    \/ \E windowId \in CallIds(unknown) : Open(windowId, maxCascade)
    \/ \E windowId \in CallIds(unknown) : Close(windowId)
    \/ \E windowId \in CallIds(unknown) : Minimize(windowId, maxPending)
    \/ \E windowId \in CallIds(unknown) : ToggleMaximize(windowId)
    \/ \E windowId \in dom : MinimizeCallback(windowId)
    \/ \E icon \in DockIconIds : DockClick(icon, maxCascade, maxPending)
    \/ \E windowId \in dom, onControl \in BOOLEAN, grab \in grabs :
          MouseDown(windowId, onControl, grab)
    \/ \E windowId \in dom : MouseDownBody(windowId)
    \/ \E p \in pointers, v \in viewports : MouseMove(p, v)
    \/ MouseUp

\* The two-window page, every handler, few pointer inputs.  lastOp is off,
\* so a call with an unknown id would be a stuttering step.
Next == NextOn({}, PagePointers, PageGrabOffsets, PageViewports, MaxCascade, MaxPending)
Spec == Init /\ [][Next]_vars

\* The one-window page, every handler, with lastOp recorded.
NextWindow == NextOn({NoSuchWindow}, Pointers, GrabOffsets, Viewports, MaxCascadeWindow, MaxPendingWindow)
SpecWindow == InitWindow /\ [][NextWindow]_vars

\* The two-window page with lastOp recorded: open, close, maximize and the
\* pointer events, without minimizeWindow and its callbacks.
InitFocus == InitOn(PageWindows, TRUE)
NextFocus ==
    \/ \E windowId \in dom : Open(windowId, MaxCascade)
    \/ \E windowId \in dom : Close(windowId)
    \/ \E windowId \in dom : ToggleMaximize(windowId)
    \/ \E windowId \in dom, onControl \in BOOLEAN, grab \in FocusGrabOffsets :
          MouseDown(windowId, onControl, grab)
    \/ \E windowId \in dom : MouseDownBody(windowId)
    \/ \E p \in FocusPointers, v \in PageViewports : MouseMove(p, v)
    \/ MouseUp
SpecFocus == InitFocus /\ [][NextFocus]_vars

\* The page with the five windows, with lastOp off: openWindow on every
\* window, closeWindow and minimizeWindow (with its callback) on the windows
\* of Dismissed only.
Dismissed == {"statsWindow"}
InitDesktop == InitOn(KnownWindows, FALSE)
NextDesktop ==
    \/ \E windowId \in dom : Open(windowId, MaxCascadeDesktop)
    \/ \E windowId \in Dismissed : Close(windowId)
    \/ \E windowId \in Dismissed : Minimize(windowId, MaxPendingDesktop)
    \/ \E windowId \in Dismissed : MinimizeCallback(windowId)
SpecDesktop == InitDesktop /\ [][NextDesktop]_vars

(***************************************************************************)
(* The thought generator (lines 916-960).  A card is the index of the       *)
(* thought it shows; #thoughtsList and #diceSpinner exist and the list      *)
(* starts without cards (the dock handler generates the first thought when  *)
(* it finds the list empty, lines 271-274).                                 *)
(***************************************************************************)

\* Array.from({ length: thoughts.length }, (_, i) => i), line 934.
fullDeck == [i \in 1 .. NumThoughts |-> i - 1]

\* Lines 932-935: the deck the selection draws from.
refilled(deck) == IF Len(deck) = 0 THEN fullDeck ELSE deck

\* Variant: the selected index stays in the deck.
splicedNothing(deck, pointer) == deck

\* availableIndices.splice(randomIndexPointer, 1), line 939: the deck without
\* the element at the 0-based position pointer.
spliced(deck, pointer) ==
    [i \in 1 .. (Len(deck) - 1) |-> IF i <= pointer THEN deck[i] ELSE deck[i + 1]]

\* Variant: the new card goes to the end of the list.
insertedLast(cards, card) == Append(cards, card)

\* thoughtsList.insertBefore(thoughtCard, thoughtsList.firstChild), line 952.
insertedFirst(cards, card) == <<card>> \o cards

\* Lines 955-957: the last card is removed while there are more than 5.
RECURSIVE trimmed(_)
trimmed(cards) ==
    IF Len(cards) > 5 THEN trimmed(SubSeq(cards, 1, Len(cards) - 1)) ELSE cards

\* generateThought, lines 918-930: the dice starts spinning and the callback
\* is scheduled.
generateThought ==
    /\ spinning' = TRUE
    /\ spins' = spins + 1
    /\ UNCHANGED <<availableIndices, thoughtsList>>

\* The callback, lines 930-958; pointer is Math.floor(Math.random() *
\* availableIndices.length), taken after the refill.
thoughtCallback(pointer) ==
    LET deck == refilled(availableIndices)
        selectedThoughtIndex == deck[pointer + 1]
    IN  /\ spinning' = FALSE
        /\ availableIndices' = spliced(deck, pointer)
        /\ thoughtsList' = trimmed(insertedFirst(thoughtsList, selectedThoughtIndex))
        /\ spins' = spins - 1

GenerateThought ==
    /\ spins < MaxSpins
    /\ Len(generated) + spins < MaxGenerations
    /\ generateThought
    /\ UNCHANGED <<generated, windowVars>>

ThoughtCallback(pointer) ==
    /\ spins > 0
    /\ pointer < Len(refilled(availableIndices))
    /\ thoughtCallback(pointer)
    /\ generated' = Append(generated, refilled(availableIndices)[pointer + 1])
    /\ UNCHANGED windowVars

InitThoughts == InitOn(PageWindows, FALSE)
NextThoughts ==
    \/ GenerateThought
    \/ \E pointer \in 0 .. (NumThoughts - 1) : ThoughtCallback(pointer)
SpecThoughts == InitThoughts /\ [][NextThoughts]_vars

(***************************************************************************)
(* The claims.                                                             *)
(***************************************************************************)

\* C1: after every sequence of lifecycle calls on window elements, the open
\* set is exactly the set of ids whose most recent lifecycle call was
\* openWindow.
C1_OpenSetIsLastOpened == activeWindows = opened

\* aboutWindow was opened and then minimized while filesWindow stays open.
C1_Witness ==
    /\ activeWindows = {"filesWindow"}
    /\ opened = {"filesWindow"}
    /\ style["aboutWindow"].width = <<60, "vw">>
    /\ style["aboutWindow"].display = "none"
    /\ timeouts["aboutWindow"] = 1

\* C2: in every reachable state a dock icon is active iff its window is in
\* the open set.
C2_DockMatchesOpenSet ==
    \A icon \in DockIconIds : (icon \in dockIcons) <=> (windowOfIcon(icon) \in activeWindows)

\* filesWindow is open, aboutWindow was opened, minimized, and its callback
\* has fired.
C2_Witness ==
    /\ dockIcons = {"filesIcon"}
    /\ activeWindows = {"filesWindow"}
    /\ style["aboutWindow"].width = <<60, "vw">>
    /\ style["aboutWindow"].display = "none"
    /\ "active" \notin classList["aboutWindow"]
    /\ timeouts["aboutWindow"] = 0

\* C3: openWindow on an id already in the open set leaves that window's
\* geometry and the cascade counter unchanged.
C3_ReopenKeepsGeometry ==
    [][\A id \in dom :
          (id \in activeWindows /\ lastOp' = <<"openWindow", id>>)
          => /\ geometry(style'[id]) = geometry(style[id])
             /\ cascadeCount' = cascadeCount]_vars

\* openWindow has just run on a window that was dragged since it was placed
\* (a placement would have put its left back in vw).
C3_Witness ==
    /\ lastOp = <<"openWindow", "statsWindow">>
    /\ "statsWindow" \in activeWindows
    /\ style["statsWindow"].left[2] = "px"
    /\ cascadeCount = 1

\* C4: openWindow of a window element on an empty open set places from
\* counter 0 and leaves the counter at 1; no other step lowers the counter.
C4_CascadeReset ==
    [][/\ \A id \in dom :
            (activeWindows = {} /\ openWindow(id))
            => /\ cascadeCount' = 1
               /\ style'[id].top = <<10, "vh">>
               /\ style'[id].left = <<20, "vw">>
       /\ cascadeCount' < cascadeCount
            => (activeWindows = {} /\ \E id \in dom : openWindow(id))
       /\ ~(activeWindows = {} /\ \E id \in dom : openWindow(id))
            => cascadeCount' \in {cascadeCount, cascadeCount + 1}]_vars

\* aboutWindow was opened on an empty open set after filesWindow had been
\* placed from counter 1 (the counter had reached 2).
C4_Witness ==
    /\ activeWindows = {"aboutWindow"}
    /\ cascadeCount = 1
    /\ style["aboutWindow"].top = <<10, "vh">>
    /\ style["aboutWindow"].left = <<20, "vw">>
    /\ style["filesWindow"].top = <<14, "vh">>

C6_MaximizeRoundTrip ==
    trip.n = 2
    => /\ geometry(style[trip.id]) = trip.g
       /\ "maximized" \notin classList[trip.id]

\* A round trip of a dragged window is complete, and a pointer-move arrived
\* while the window was maximized and the drag target.
C6_Witness ==
    /\ trip.n = 2
    /\ trip.moved
    /\ trip.g.left[2] = "px"
    /\ lastOp = <<"toggleMaximize", trip.id>>

\* C7: toggleMaximize on a window element that is not in the open set leaves
\* the open set and that window's geometry unchanged.
C7_ToggleClosedKeepsGeometry ==
    [][\A id \in dom :
          (id \notin activeWindows /\ lastOp' = <<"toggleMaximize", id>>)
          => /\ activeWindows' = activeWindows
             /\ geometry(style'[id]) = geometry(style[id])]_vars

\* toggleMaximize has just run its restore branch on a closed window that
\* had been dragged before it was maximized.
C7_Witness ==
    /\ lastOp = <<"toggleMaximize", "statsWindow">>
    /\ "statsWindow" \notin activeWindows
    /\ style["statsWindow"].display = "none"
    /\ "maximized" \notin classList["statsWindow"]
    /\ "statsWindow" \in DOMAIN windowStates
    /\ windowStates["statsWindow"].left[2] = "px"

\* C8: toggleMaximize on a window element that is not in the open set
\* changes nothing: open set, geometry, maximized flag, saved geometry.
C8_ToggleClosedNoOp ==
    [][\A id \in dom :
          (id \notin activeWindows /\ lastOp' = <<"toggleMaximize", id>>)
          => /\ activeWindows' = activeWindows
             /\ geometry(style'[id]) = geometry(style[id])
             /\ classList'[id] = classList[id]
             /\ windowStates' = windowStates]_vars

\* C9: a pointer-move never changes the geometry of a window that carries
\* the maximized flag.
C9_NoDragWhileMaximized ==
    [][\A id \in dom :
          ("maximized" \in classList[id] /\ lastOp'[1] = "mousemove")
          => geometry(style'[id]) = geometry(style[id])]_vars

\* A pointer-move has just arrived while the open, maximized window was the
\* drag target.
C9_Witness ==
    /\ lastOp = <<"mousemove", "statsWindow">>
    /\ isDragging
    /\ currentWindow = "statsWindow"
    /\ "statsWindow" \in activeWindows
    /\ "maximized" \in classList["statsWindow"]

\* C10: a pointer-move that is applied leaves the drag target with left >=
\* 70px and top >= 28px; pointer (0,0) with grab offset (0,0) gives exactly
\* 70px and 28px.
C10_DragLowerClamp ==
    [][\A p \in Pointers, v \in Viewports :
          (/\ isDragging
           /\ currentWindow # Null
           /\ "maximized" \notin classList[currentWindow]
           /\ mousemove(p, v))
          => /\ style'[currentWindow].left[2] = "px"
             /\ style'[currentWindow].top[2] = "px"
             /\ style'[currentWindow].left[1] >= 70
             /\ style'[currentWindow].top[1] >= 28
             /\ (p = <<0, 0>> /\ offset = <<0, 0>>)
                  => /\ style'[currentWindow].left = <<70, "px">>
                     /\ style'[currentWindow].top = <<28, "px">>]_vars

\* A pointer-move has just been applied with grab offset (0,0) and left the
\* window at the lower clamp.
C10_Witness ==
    /\ lastOp = <<"mousemove", "statsWindow">>
    /\ isDragging
    /\ currentWindow = "statsWindow"
    /\ "maximized" \notin classList["statsWindow"]
    /\ offset = <<0, 0>>
    /\ style["statsWindow"].left = <<70, "px">>
    /\ style["statsWindow"].top = <<28, "px">>

\* C11 as stated: after every applied pointer-move left <= viewportWidth -
\* 100 and top <= viewportHeight - 50, in every viewport, those narrower
\* than 170px or shorter than 78px included.
C11_DragUpperClampAnyViewport ==
    [][\A p \in Pointers, v \in Viewports :
          (/\ isDragging
           /\ currentWindow # Null
           /\ "maximized" \notin classList[currentWindow]
           /\ mousemove(p, v))
          => /\ style'[currentWindow].left[1] <= v[1] - 100
             /\ style'[currentWindow].top[1] <= v[2] - 50]_vars

\* C11, amended: after every applied pointer-move left <= viewportWidth - 100
\* in a viewport at least 170px wide and top <= viewportHeight - 50 in a
\* viewport at least 78px tall; in a narrower viewport left is 70px and in a
\* shorter one top is 28px, the lower bound being applied last.
C11_DragUpperClamp ==
    [][\A p \in Pointers, v \in Viewports :
          (/\ isDragging
           /\ currentWindow # Null
           /\ "maximized" \notin classList[currentWindow]
           /\ mousemove(p, v))
          => /\ style'[currentWindow].left[2] = "px"
             /\ style'[currentWindow].top[2] = "px"
             /\ IF v[1] >= 170 THEN style'[currentWindow].left[1] <= v[1] - 100
                               ELSE style'[currentWindow].left[1] = 70
             /\ IF v[2] >= 78 THEN style'[currentWindow].top[1] <= v[2] - 50
                              ELSE style'[currentWindow].top[1] = 28]_vars

\* A pointer-move far beyond a 1000 x 800 viewport has just been applied and
\* left the window at the upper bounds, 900px and 750px.
C11_Witness ==
    /\ lastOp = <<"mousemove", "statsWindow">>
    /\ isDragging
    /\ currentWindow = "statsWindow"
    /\ "maximized" \notin classList["statsWindow"]
    /\ style["statsWindow"].left = <<900, "px">>
    /\ style["statsWindow"].top = <<750, "px">>

\* C12: openWindow, closeWindow, minimizeWindow and toggleMaximize called
\* with an id that matches no window element leave the whole state as it
\* was: the open set, the cascade counter (not reset, the open set being
\* empty or not), every window's geometry, flags, snapshot and stacking
\* value, the dock icons, the drag state, and no callback is scheduled.
C12_UnknownIdNoOp ==
    [][(/\ lastOp'[2] = NoSuchWindow
        /\ lastOp'[1] \in {"openWindow", "closeWindow", "minimizeWindow",
                           "toggleMaximize"})
       => UNCHANGED progVars]_vars

\* openWindow has just been called with an unknown id while the open set is
\* empty and the counter is 1: the counter has not been reset.
C12_Witness ==
    /\ lastOp = <<"openWindow", NoSuchWindow>>
    /\ activeWindows = {}
    /\ cascadeCount = 1

\* C13: after openWindow(id) on a window element, in the open set before or
\* not, id is in the open set and is the one window with z-index 101, and
\* every other window has z-index 100.
C13_OpenPromotes ==
    [][\A id \in dom :
          openWindow(id)
          => /\ id \in activeWindows'
             /\ style'[id].zIndex = 101
             /\ \A w \in dom \ {id} : style'[w].zIndex = 100]_vars

\* aboutWindow was opened after filesWindow and nothing was grabbed since:
\* aboutWindow is in front, filesWindow at the baseline.
C13_Witness ==
    /\ activeWindows = {"filesWindow", "aboutWindow"}
    /\ cascadeCount = 2
    /\ style["aboutWindow"].top = <<14, "vh">>
    /\ style["aboutWindow"].zIndex = 101
    /\ style["filesWindow"].zIndex = 100
    /\ ~isDragging
    /\ currentWindow = Null

\* C14: in every reachable state at most one window has z-index 101, and a
\* window that has a z-index and is not that one has 100.
C14_OneFront ==
    /\ Cardinality({w \in KnownWindows : style[w].zIndex = 101}) <= 1
    /\ \A w \in KnownWindows : style[w].zIndex \in {0, 100, 101}
    /\ (\E w \in dom : style[w].zIndex # 0) => (\A w \in dom : style[w].zIndex # 0)

\* aboutWindow, opened second and so in front once, is back at the baseline
\* and filesWindow is in front.
C14_Witness ==
    /\ activeWindows = {"filesWindow", "aboutWindow"}
    /\ style["aboutWindow"].top = <<14, "vh">>
    /\ style["filesWindow"].top = <<10, "vh">>
    /\ style["aboutWindow"].zIndex = 100
    /\ style["filesWindow"].zIndex = 101

\* C15: closeWindow(id) on a window element takes id out of the open set and
\* hides the window; the window's geometry, maximized flag and snapshot, the
\* cascade counter, every z-index and every other window stay as they were.
C15_CloseFrame ==
    [][\A id \in dom :
          closeWindow(id)
          => /\ activeWindows' = activeWindows \ {id}
             /\ style'[id].display = "none"
             /\ geometry(style'[id]) = geometry(style[id])
             /\ ("maximized" \in classList'[id]) = ("maximized" \in classList[id])
             /\ windowStates' = windowStates
             /\ cascadeCount' = cascadeCount
             /\ \A w \in KnownWindows : style'[w].zIndex = style[w].zIndex
             /\ \A w \in KnownWindows \ {id} :
                   /\ style'[w] = style[w]
                   /\ classList'[w] = classList[w]
                   /\ timeouts'[w] = timeouts[w]]_vars

\* aboutWindow, opened second and maximized, is closed: hidden, out of the
\* open set, without class active and with no callback pending, and it still
\* has its placement, its flag, its snapshot and z-index 101; the counter is
\* still 2 and filesWindow is open at the baseline.
C15_Witness ==
    /\ activeWindows = {"filesWindow"}
    /\ style["aboutWindow"].display = "none"
    /\ "active" \notin classList["aboutWindow"]
    /\ timeouts["aboutWindow"] = 0
    /\ "maximized" \in classList["aboutWindow"]
    /\ "aboutWindow" \in DOMAIN windowStates
    /\ geometry(style["aboutWindow"]) =
          [top |-> <<14, "vh">>, left |-> <<23, "vw">>,
           width |-> <<60, "vw">>, height |-> <<75, "vh">>]
    /\ style["aboutWindow"].zIndex = 101
    /\ style["filesWindow"].zIndex = 100
    /\ cascadeCount = 2

\* The state the window manager tracks: everything but class "active" and
\* the pending callbacks.
tracked ==
    [open |-> activeWindows, saved |-> windowStates, count |-> cascadeCount,
     max |-> {w \in dom : "maximized" \in classList[w]}, style |-> style,
     dock |-> dockIcons, dragging |-> isDragging, target |-> currentWindow,
     grab |-> offset]

\* What each handler does to the tracked state t, as a function of t and the
\* handler's input alone.  closeWindow and minimizeWindow share afterHide.
afterHide(t, id) ==
    [t EXCEPT !.open = @ \ {id},
              !.style = [@ EXCEPT ![id].display = "none"],
              !.dock = updateDockIcons(@, t.open \ {id})]
afterOpen(t, id) ==
    LET c == resetCascade(t.open, t.count)
        fresh == needsPlacement(t.open, id)
        st == [(IF fresh THEN placed(t.style[id], c) ELSE t.style[id])
                  EXCEPT !.display = "flex"]
    IN  [t EXCEPT !.count = (IF fresh THEN c + 1 ELSE c),
                  !.max = (IF fresh THEN @ \ {id} ELSE @),
                  !.style = bringToFront([@ EXCEPT ![id] = st], id),
                  !.open = @ \cup {id},
                  !.dock = updateDockIcons(@, t.open \cup {id})]
afterToggle(t, id) ==
    IF id \in t.max
    THEN [t EXCEPT !.max = @ \ {id},
                   !.style = IF id \in DOMAIN t.saved
                                THEN [@ EXCEPT ![id] = assignStyle(@, t.saved[id])]
                                ELSE @]
    ELSE [t EXCEPT !.saved = putState(@, id, snapshot(t.style[id])),
                   !.max = @ \cup {id}]
afterDown(t, id, onControl, grab) ==
    IF onControl THEN t
    ELSE [t EXCEPT !.dragging = TRUE, !.target = id, !.grab = grab,
                   !.style = bringToFront(@, id)]
afterMove(t, p, v) ==
    IF ~t.dragging \/ t.target = Null \/ t.target \in t.max THEN t
    ELSE [t EXCEPT !.style = [@ EXCEPT
              ![t.target].left = <<clampLeft(p[1] - t.grab[1], v[1]), "px">>,
              ![t.target].top = <<clampTop(p[2] - t.grab[2], v[2]), "px">>]]
afterUp(t) == [t EXCEPT !.dragging = FALSE, !.target = Null]

\* C16: minimizeWindow(id) and closeWindow(id) do the same to the tracked
\* state (open set, dock icons, cascade counter, geometry, snapshots,
\* maximized flags, z-index), and what every handler does to the tracked
\* state depends on the tracked state and its input only, so the two calls
\* agree after every later sequence of handlers as well.  They differ in
\* class "active": closeWindow removes it at once, minimizeWindow leaves it
\* to a callback.
C16_MinimizeAsClose ==
    [][LET op == lastOp'[1]
           id == lastOp'[2]
       IN  /\ (op = "minimizeWindow" /\ id \in dom)
                => /\ tracked' = afterHide(tracked, id)
                   /\ classList' = classList
                   /\ timeouts' = [timeouts EXCEPT ![id] = @ + 1]
           /\ (op = "closeWindow" /\ id \in dom)
                => /\ tracked' = afterHide(tracked, id)
                   /\ "active" \notin classList'[id]
                   /\ timeouts' = timeouts
           /\ op = "minimizeCallback"
                => /\ tracked' = tracked
                   /\ "active" \notin classList'[id]
           /\ (op = "openWindow" /\ id \in dom)
                => tracked' = afterOpen(tracked, id)
           /\ (op = "toggleMaximize" /\ id \in dom)
                => tracked' = afterToggle(tracked, id)
           /\ op = "dockClick"
                => tracked' = (IF id \in activeWindows THEN afterHide(tracked, id)
                                                       ELSE afterOpen(tracked, id))
           /\ id = NoSuchWindow => tracked' = tracked
           /\ \A onControl \in BOOLEAN, grab \in GrabOffsets :
                 (op = "mousedown" /\ mousedown(id, onControl, grab))
                 => tracked' = afterDown(tracked, id, onControl, grab)
           /\ \A p \in Pointers, v \in Viewports :
                 (op = "mousemove" /\ mousemove(p, v))
                 => tracked' = afterMove(tracked, p, v)
           /\ op = "mouseup" => tracked' = afterUp(tracked)]_vars

\* minimizeWindow has just run on the open statsWindow: the window is hidden
\* and out of the open set and the dock, as after closeWindow, and it still
\* carries class active, its callback pending.
C16_Witness ==
    /\ lastOp = <<"minimizeWindow", "statsWindow">>
    /\ before.open = {"statsWindow"}
    /\ activeWindows = {}
    /\ dockIcons = {}
    /\ style["statsWindow"].display = "none"
    /\ "active" \in classList["statsWindow"]
    /\ timeouts["statsWindow"] = 1

C18_MinimizeIdempotent ==
    /\ [][\A id \in dom :
            (/\ lastOp' = <<"minimizeWindow", id>>
             /\ \/ lastOp = <<"minimizeWindow", id>>
                \/ /\ lastOp = <<"minimizeCallback", id>>
                   /\ id \notin activeWindows
                   /\ style[id].display = "none")
            => /\ tracked' = tracked
               /\ classList' = classList
               /\ timeouts' = [timeouts EXCEPT ![id] = @ + 1]]_vars
    /\ [](\A id \in dom :
            (id \notin activeWindows /\ timeouts[id] = 0)
            => /\ "active" \notin classList[id]
               /\ style[id].display \in {"", "none"})

\* minimizeWindow has just run a second time on statsWindow, the first
\* callback still pending: two callbacks are pending, class active is still
\* set, and the call found the window out of the open set.
C18_Witness ==
    /\ lastOp = <<"minimizeWindow", "statsWindow">>
    /\ before.again
    /\ before.open = {}
    /\ timeouts["statsWindow"] = 2
    /\ "active" \in classList["statsWindow"]
    /\ style["statsWindow"].display = "none"

\* C19: after openWindow(id) on a window element that was not in the open
\* set, called directly or by a dock click, the window does not carry class
\* maximized, whether it was closed or minimized while maximized or
\* toggleMaximize was applied while it was closed.
C19_OpenRestores ==
    [][\A id \in dom :
          (/\ lastOp' \in {<<"openWindow", id>>, <<"dockClick", id>>}
           /\ id \notin activeWindows)
          => /\ id \in activeWindows'
             /\ "maximized" \notin classList'[id]]_vars

\* openWindow has just run on statsWindow, which it found out of the open
\* set and carrying class maximized; the class is gone.
C19_Witness ==
    /\ lastOp = <<"openWindow", "statsWindow">>
    /\ before.open = {}
    /\ "statsWindow" \in before.max
    /\ "statsWindow" \in activeWindows
    /\ "maximized" \notin classList["statsWindow"]

\* C20: a dock-icon click calls minimizeWindow when its window is in the open
\* set and openWindow otherwise, so it toggles the window's membership; a
\* second click on the same icon directly after the first puts the open set
\* and the dock icons back to what the first click found.
C20_DockClickToggles ==
    [][\A icon \in DockIconIds :
          LET w == windowOfIcon(icon)
          IN  (w \in dom /\ lastOp' = <<"dockClick", w>>)
              => /\ IF w \in activeWindows THEN minimizeWindow(w) ELSE openWindow(w)
                 /\ (w \in activeWindows') = (w \notin activeWindows)
                 /\ lastOp = <<"dockClick", w>>
                      => /\ activeWindows' = before.open
                         /\ dockIcons' = before.dock]_vars

\* statsIcon has just been clicked twice in a row: the second click found
\* statsWindow in the open set, where the first had put it, and the open set
\* and the dock are empty again.
C20_Witness ==
    /\ lastOp = <<"dockClick", "statsWindow">>
    /\ before.again
    /\ before.open = {"statsWindow"}
    /\ before.dock = {"statsIcon"}
    /\ activeWindows = {}
    /\ dockIcons = {}

\* C21: the callback scheduled by minimizeWindow(id), whenever it fires,
\* removes class active from that window and changes nothing else: not the
\* open set, the dock icons, the cascade counter, any geometry, snapshot,
\* maximized flag, display or z-index, nor the drag state.
C21_CallbackVisualOnly ==
    [][\A id \in dom :
          minimizeCallback(id)
          => /\ tracked' = tracked
             /\ classList'[id] = classList[id] \ {"active"}
             /\ \A w \in KnownWindows \ {id} : classList'[w] = classList[w]]_vars

\* aboutWindow was minimized and opened again before its callback fired, and
\* the callback has fired since: the window is open, shown, in front and in
\* the dock, and has lost class active.
C21_Witness ==
    /\ activeWindows = {"filesWindow", "aboutWindow"}
    /\ dockIcons = {"filesIcon", "aboutIcon"}
    /\ timeouts["aboutWindow"] = 0
    /\ "active" \notin classList["aboutWindow"]
    /\ style["aboutWindow"].display = "flex"
    /\ style["aboutWindow"].zIndex = 101

\* C22: in every reachable state every window in the open set carries class
\* active.
C22_OpenHasActive ==
    \A id \in activeWindows : "active" \in classList[id]

\* C23: in every reachable state a window element is displayed (display
\* flex) exactly when its id is in the open set, and its display changes only
\* in openWindow, closeWindow and minimizeWindow of that window: no drag
\* event, toggleMaximize or callback changes it.
C23_DisplayMatchesOpenSet ==
    /\ [](\A id \in dom : (style[id].display = "flex") <=> (id \in activeWindows))
    /\ [][\A id \in dom :
            style'[id].display # style[id].display
            => \/ openWindow(id)
               \/ closeWindow(id)
               \/ minimizeWindow(id)]_vars

\* aboutWindow was grabbed, maximized and minimized: it is hidden and out of
\* the open set while still the drag target, its callback pending;
\* filesWindow is open and shown.
C23_Witness ==
    /\ activeWindows = {"filesWindow"}
    /\ style["filesWindow"].display = "flex"
    /\ style["aboutWindow"].display = "none"
    /\ timeouts["aboutWindow"] = 1
    /\ isDragging
    /\ currentWindow = "aboutWindow"
    /\ "maximized" \in classList["aboutWindow"]

\* C24: a mousedown on a window header outside the control buttons sets
\* isDragging with that window as target and makes it the one window with
\* z-index 101; a mousedown on a control button leaves isDragging, the
\* target, the grab offset and every z-index as they were, so an idle drag
\* controller stays idle.
C24_PointerDown ==
    [][\A id \in dom, grab \in PageGrabOffsets :
          /\ (rendered(id) /\ mousedown(id, FALSE, grab))
               => /\ isDragging'
                  /\ currentWindow' = id
                  /\ offset' = grab
                  /\ style'[id].zIndex = 101
                  /\ \A w \in dom \ {id} : style'[w].zIndex = 100
          /\ (rendered(id) /\ mousedown(id, TRUE, grab))
               => /\ isDragging' = isDragging
                  /\ currentWindow' = currentWindow
                  /\ offset' = offset
                  /\ \A w \in KnownWindows : style'[w].zIndex = style[w].zIndex]_vars

\* filesWindow, opened first, has been grabbed by its header: it is the drag
\* target and in front, and aboutWindow, opened after it, is at the baseline.
C24_Witness ==
    /\ activeWindows = {"filesWindow", "aboutWindow"}
    /\ style["aboutWindow"].top = <<14, "vh">>
    /\ isDragging
    /\ currentWindow = "filesWindow"
    /\ style["filesWindow"].zIndex = 101
    /\ style["aboutWindow"].zIndex = 100

\* C25: a mouseup always leaves isDragging false and no target, whatever the
\* state before and whether the target is maximized or open; while
\* isDragging is false no mousemove changes any style, and only a header
\* mousedown sets isDragging again.
C25_PointerUpIdles ==
    /\ [][/\ lastOp'[1] = "mouseup" => (~isDragging' /\ currentWindow' = Null)
          /\ (~isDragging /\ lastOp'[1] = "mousemove") => style' = style
          /\ (~isDragging /\ isDragging') => lastOp'[1] = "mousedown"]_vars
    /\ [](isDragging <=> currentWindow # Null)

\* A mousemove has just arrived with no drag under way, after an earlier grab
\* at offset (30,10) had been ended: the window still stands where
\* openWindow placed it.
C25_Witness ==
    /\ lastOp = <<"mousemove", Null>>
    /\ ~isDragging
    /\ offset = <<30, 10>>
    /\ "statsWindow" \in activeWindows
    /\ style["statsWindow"].left = <<20, "vw">>

\* C26: a pointer press on an open window outside its header makes that
\* window the one with z-index 101, as a press on its header does.
C26_PressPromotes ==
    [][\A id \in dom :
          (lastOp' = <<"mousedownBody", id>> /\ id \in activeWindows)
          => style'[id].zIndex = 101]_vars

\* C27 as stated: every openWindow(id) on a window element leaves the window
\* without class maximized, an open window that is maximized included.
C27_EveryOpenRestores ==
    [][\A id \in dom :
          lastOp' = <<"openWindow", id>> => "maximized" \notin classList'[id]]_vars

\* C27, amended: openWindow(id) on a window element that is not in the open
\* set leaves the window without class maximized; on a window that is in the
\* open set it leaves the class and the geometry as they were, so an open,
\* maximized window stays maximized.
C27_OpenRestoresWhenClosed ==
    [][\A id \in dom :
          lastOp' = <<"openWindow", id>>
          => IF id \in activeWindows
                THEN /\ ("maximized" \in classList'[id]) = ("maximized" \in classList[id])
                     /\ geometry(style'[id]) = geometry(style[id])
                ELSE "maximized" \notin classList'[id]]_vars

\* openWindow has just run on statsWindow, which it found in the open set and
\* maximized; the window is still maximized.
C27_Witness ==
    /\ lastOp = <<"openWindow", "statsWindow">>
    /\ before.open = {"statsWindow"}
    /\ "statsWindow" \in before.max
    /\ "maximized" \in classList["statsWindow"]
    /\ "statsWindow" \in activeWindows

\* C28 as stated: the restore clears the snapshot, so that in every reachable
\* state a window without class maximized has no entry in windowStates.
C28_NoSnapshotUnlessMaximized ==
    \A id \in dom : "maximized" \notin classList[id] => id \notin DOMAIN windowStates

\* C28, amended: the restore reads the snapshot and leaves it in windowStates,
\* so a window that was maximized once keeps an entry; every window with
\* class maximized has an entry; windowStates is written by the maximize
\* branch of toggleMaximize only, which stores the geometry of that moment.
C28_SnapshotKept ==
    /\ [](\A id \in dom : "maximized" \in classList[id] => id \in DOMAIN windowStates)
    /\ [][/\ \A id \in dom :
              lastOp' = <<"toggleMaximize", id>>
              => IF "maximized" \in classList[id]
                    THEN /\ windowStates' = windowStates
                         /\ geometry(style'[id]) = windowStates[id]
                    ELSE /\ id \in DOMAIN windowStates'
                         /\ windowStates'[id] = geometry(style[id])
                         /\ \A w \in DOMAIN windowStates \ {id} :
                               windowStates'[w] = windowStates[w]
          /\ windowStates' # windowStates => lastOp'[1] = "toggleMaximize"]_vars

\* toggleMaximize has just run twice in a row on statsWindow: the second call
\* found it maximized and restored it, and its snapshot is still there.
C28_Witness ==
    /\ lastOp = <<"toggleMaximize", "statsWindow">>
    /\ before.again
    /\ "statsWindow" \in before.max
    /\ "maximized" \notin classList["statsWindow"]
    /\ "statsWindow" \in DOMAIN windowStates

\* C29 as stated: on the page with the five windows, after every sequence of
\* openWindow, closeWindow and minimizeWindow calls, every window that has
\* been placed sits in one of the first five cascade slots: its top is at
\* most 26vh and its left at most 32vw (the counter used to place it was at
\* most 4).
C29_CascadeOnScreen ==
    \A id \in dom :
        style[id].top[2] = "vh"
        => /\ style[id].top[1] <= 26
           /\ style[id].left[1] <= 32

\* C30: toggleMaximize(id) flips the maximized flag of window id and changes
\* nothing else but that window's snapshot (on maximize) and its geometry (on
\* restore): the open set, the dock indicators, the cascade counter, every
\* z-index and display, the drag state, the pending callbacks, and the
\* style, classes and snapshot of every other window stay as they were.
C30_ToggleFrame ==
    [][\A id \in dom :
          toggleMaximize(id)
          => /\ ("maximized" \in classList'[id]) # ("maximized" \in classList[id])
             /\ ("active" \in classList'[id]) = ("active" \in classList[id])
             /\ "maximized" \notin classList[id]
                   => geometry(style'[id]) = geometry(style[id])
             /\ activeWindows' = activeWindows
             /\ dockIcons' = dockIcons
             /\ cascadeCount' = cascadeCount
             /\ isDragging' = isDragging
             /\ currentWindow' = currentWindow
             /\ offset' = offset
             /\ timeouts' = timeouts
             /\ \A w \in KnownWindows :
                   /\ style'[w].zIndex = style[w].zIndex
                   /\ style'[w].display = style[w].display
             /\ \A w \in KnownWindows \ {id} :
                   /\ style'[w] = style[w]
                   /\ classList'[w] = classList[w]
                   /\ (w \in DOMAIN windowStates') = (w \in DOMAIN windowStates)
                   /\ w \in DOMAIN windowStates => windowStates'[w] = windowStates[w]]_vars

\* filesWindow, opened first, was maximized after aboutWindow had been
\* maximized and while aboutWindow was being dragged: both hold a snapshot,
\* filesWindow is still behind aboutWindow, the drag is still on, and both
\* are open with the counter at 2.
C30_Witness ==
    /\ "maximized" \in classList["filesWindow"]
    /\ "maximized" \in classList["aboutWindow"]
    /\ DOMAIN windowStates = {"filesWindow", "aboutWindow"}
    /\ windowStates["filesWindow"].top = <<10, "vh">>
    /\ windowStates["aboutWindow"].top = <<14, "vh">>
    /\ style["filesWindow"].zIndex = 100
    /\ style["aboutWindow"].zIndex = 101
    /\ isDragging
    /\ currentWindow = "aboutWindow"
    /\ activeWindows = {"filesWindow", "aboutWindow"}
    /\ cascadeCount = 2

\* C31: a pointer-move while the drag controller is Dragging changes nothing
\* but left and top of the drag target, which become pointer minus grab
\* offset clamped to [70, innerWidth - 100] and [28, innerHeight - 50] (and
\* stay as they are when the target is maximized); the target's width,
\* height, display and z-index, every other window's style, the open set,
\* the counter, the classes, the snapshots, the dock and the drag state are
\* unchanged.
C31_MoveFrame ==
    [][\A p \in FocusPointers, v \in PageViewports :
          isDragging /\ lastOp' = <<"mousemove", currentWindow>>
          => /\ IF "maximized" \in classList[currentWindow]
                   THEN style'[currentWindow] = style[currentWindow]
                   ELSE /\ style'[currentWindow].left =
                              <<Max(70, Min(p[1] - offset[1], v[1] - 100)), "px">>
                        /\ style'[currentWindow].top =
                              <<Max(28, Min(p[2] - offset[2], v[2] - 50)), "px">>
             /\ style'[currentWindow].width = style[currentWindow].width
             /\ style'[currentWindow].height = style[currentWindow].height
             /\ style'[currentWindow].zIndex = style[currentWindow].zIndex
             /\ style'[currentWindow].display = style[currentWindow].display
             /\ \A w \in KnownWindows \ {currentWindow} : style'[w] = style[w]
             /\ activeWindows' = activeWindows
             /\ cascadeCount' = cascadeCount
             /\ classList' = classList
             /\ windowStates' = windowStates
             /\ dockIcons' = dockIcons
             /\ isDragging' = isDragging
             /\ currentWindow' = currentWindow
             /\ offset' = offset]_vars

\* aboutWindow, grabbed at (30, 10), has just been moved by a pointer at
\* (600, 900) in the 1000 x 800 viewport: it sits at left 570px and at the
\* upper clamp 750px, with its size and z-index 101, while filesWindow is
\* maximized at its cascade slot with its snapshot.
C31_Witness ==
    /\ lastOp = <<"mousemove", "aboutWindow">>
    /\ isDragging
    /\ currentWindow = "aboutWindow"
    /\ offset = <<30, 10>>
    /\ style["aboutWindow"].left = <<570, "px">>
    /\ style["aboutWindow"].top = <<750, "px">>
    /\ style["aboutWindow"].width = <<60, "vw">>
    /\ style["aboutWindow"].zIndex = 101
    /\ style["filesWindow"].top = <<10, "vh">>
    /\ "maximized" \in classList["filesWindow"]
    /\ "filesWindow" \in DOMAIN windowStates
    /\ activeWindows = {"filesWindow", "aboutWindow"}

\* C32: in every reachable state a window with class maximized has a
\* snapshot in windowStates, and its inline geometry equals that snapshot.
C32_MaximizedMatchesSnapshot ==
    \A id \in dom :
        "maximized" \in classList[id]
        => /\ id \in DOMAIN windowStates
           /\ geometry(style[id]) = windowStates[id]

\* filesWindow was dragged to (500, 300), maximized there and grabbed again:
\* it is the target of a drag in progress, and its snapshot holds the dragged
\* position.
C32_Witness ==
    /\ "maximized" \in classList["filesWindow"]
    /\ isDragging
    /\ currentWindow = "filesWindow"
    /\ "filesWindow" \in DOMAIN windowStates
    /\ windowStates["filesWindow"].left = <<500, "px">>
    /\ style["filesWindow"].left = <<500, "px">>
    /\ style["filesWindow"].top = <<300, "px">>
    /\ "filesWindow" \in activeWindows

\* C33 as stated: no pointer event changes the geometry of a window that is
\* not in the open set, also when the window was closed or minimized while
\* it was the target of a drag.
C33_DragOnlyOpenWindows ==
    [][\A id \in dom :
          /\ lastOp'[1] \in {"mousedown", "mousedownBody", "mousemove", "mouseup"}
          /\ id \notin activeWindows
          => geometry(style'[id]) = geometry(style[id])]_vars

\* C34 as stated: in every reachable state a window with the elevated
\* z-index 101 is in the open set.
C34_FrontIsOpen ==
    \A id \in dom : style[id].zIndex = 101 => id \in activeWindows

\* C34, amended: closeWindow and minimizeWindow leave every z-index as it
\* is, so the window that was in front stays the only elevated one after it
\* has been hidden, and no open window is elevated then; in every reachable
\* state the elevated window, if there is one, has been opened (it is shown
\* or hidden), and when it is hidden every open window is at the baseline.
C34_FrontOutlivesClose ==
    /\ [](\A id \in dom :
             style[id].zIndex = 101
             => /\ style[id].display \in {"flex", "none"}
                /\ id \notin activeWindows
                      => \A w \in activeWindows : style[w].zIndex = 100)
    /\ [][\A id \in dom :
             closeWindow(id) \/ minimizeWindow(id)
             => \A w \in KnownWindows : style'[w].zIndex = style[w].zIndex]_vars

\* aboutWindow, opened second, has been minimized and its callback is still
\* pending: it is hidden and out of the open set with z-index 101, while
\* filesWindow is open at the baseline 100.
C34_Witness ==
    /\ activeWindows = {"filesWindow"}
    /\ style["aboutWindow"].display = "none"
    /\ style["aboutWindow"].zIndex = 101
    /\ timeouts["aboutWindow"] > 0
    /\ "active" \in classList["aboutWindow"]
    /\ style["filesWindow"].zIndex = 100
    /\ style["filesWindow"].display = "flex"

\* C35 as stated: in every reachable state the cascade counter is at least
\* the number of open windows and equals the number of windows entered into
\* the open set since the set was last empty, and any two open windows sit
\* in different cascade slots.
C35_CounterCountsPlacements ==
    /\ cascadeCount >= Cardinality(activeWindows)
    /\ cascadeCount = placements
    /\ \A a, b \in activeWindows : a # b => style[a].top # style[b].top

\* C35, amended: the counter is at least the number of open windows; while
\* the open set is not empty it equals the number of windows entered into
\* the set since the set was last empty, and when the set is empty it keeps
\* the value it had (the reset comes with the next open).  Every open window
\* sits in the slot of a counter value below the current one, and no two
\* open windows share a slot.  (In SpecDesktop the placement alone writes top
\* and left, so the slot tells the counter value of the most recent open.)
C35_CounterCountsWhileOpen ==
    /\ cascadeCount >= Cardinality(activeWindows)
    /\ activeWindows # {} => cascadeCount = placements
    /\ \A a \in activeWindows :
          \E c \in 0 .. (cascadeCount - 1) :
             /\ style[a].top = <<10 + (4 * c), "vh">>
             /\ style[a].left = <<20 + (3 * c), "vw">>
    /\ \A a, b \in activeWindows :
          a # b => /\ style[a].top # style[b].top
                   /\ style[a].left # style[b].left

\* statsWindow was closed and opened again while filesWindow and aboutWindow
\* stayed open: four placements since the desktop was empty, three windows
\* open, statsWindow in the fourth slot.
C35_Witness ==
    /\ activeWindows = {"filesWindow", "aboutWindow", "statsWindow"}
    /\ cascadeCount = 4
    /\ placements = 4
    /\ style["statsWindow"].top = <<22, "vh">>
    /\ style["statsWindow"].left = <<29, "vw">>

\* C36 as stated: while a drag is on, its target is the elevated window.
C36_TargetStaysFront ==
    (isDragging /\ currentWindow \in dom) => style[currentWindow].zIndex = 101

\* C36, amended: a pointer-down that makes w the drag target elevates w, and
\* while w stays the target of the drag it loses the elevated z-index only
\* through openWindow on another window, which is elevated instead; close,
\* minimize, toggleMaximize, the callbacks and the pointer-moves leave it
\* elevated.
C36_OnlyOpenDemotesTarget ==
    [][\A w \in dom :
          /\ (isDragging' /\ currentWindow' = w /\ ~(isDragging /\ currentWindow = w))
                => style'[w].zIndex = 101
          /\ (/\ isDragging /\ currentWindow = w /\ style[w].zIndex = 101
              /\ isDragging' /\ currentWindow' = w /\ style'[w].zIndex # 101)
                => \E id \in dom \ {w} :
                      /\ openWindow(id)
                      /\ style'[id].zIndex = 101]_vars

\* aboutWindow is the target of a drag in progress and has been moved, and
\* filesWindow, opened again during the drag, is the elevated window.
C36_Witness ==
    /\ isDragging
    /\ currentWindow = "aboutWindow"
    /\ style["aboutWindow"].left = <<500, "px">>
    /\ style["aboutWindow"].zIndex = 100
    /\ style["filesWindow"].zIndex = 101
    /\ activeWindows = {"filesWindow", "aboutWindow"}

\* C37: the thought generator samples without replacement.  Counting the
\* completed generations from the empty deck in blocks of NumThoughts, no
\* index is selected twice in a block (so a full block selects every index
\* once), the deck holds the indices the current block has not selected yet
\* and is empty at the end of a block, and the deck grows only by the refill
\* of an empty deck; any number of callbacks may be pending.
C37_SamplesWithoutReplacement ==
    /\ [](LET k == Len(generated)
              start == k - (k % NumThoughts)
              drawn == {generated[i] : i \in (start + 1) .. k}
          IN  /\ \A i, j \in 1 .. k :
                    (i # j /\ (i - 1) \div NumThoughts = (j - 1) \div NumThoughts)
                    => generated[i] # generated[j]
              /\ \A i \in 1 .. k : generated[i] \in 0 .. (NumThoughts - 1)
              /\ Len(availableIndices) = (IF k = start THEN 0 ELSE NumThoughts - (k - start))
              /\ {availableIndices[i] : i \in 1 .. Len(availableIndices)} =
                    (IF k = start THEN {} ELSE (0 .. (NumThoughts - 1)) \ drawn))
    /\ [][Len(availableIndices') > Len(availableIndices)
             => /\ availableIndices = <<>>
                /\ Len(availableIndices') = NumThoughts - 1]_vars

\* Four generations are complete, the last of them by a callback that ran
\* while another one was pending (the dice has stopped and one callback is
\* still due); the fourth, first of its block, selected the same thought as
\* the third, last of the block before.
C37_Witness ==
    /\ Len(generated) = NumThoughts + 1
    /\ generated[NumThoughts] = generated[NumThoughts + 1]
    /\ ~spinning
    /\ spins = 1
    /\ Len(availableIndices) = NumThoughts - 1

\* C38: after every completed callback the list holds min(5, k) cards, k
\* the number of completed generations: the thoughts of the last min(5, k)
\* generations, the newest first and the others in reverse order of
\* generation.
C38_LastFiveNewestFirst ==
    LET k == Len(generated)
        n == Min(5, k)
    IN  /\ Len(thoughtsList) = n
        /\ Len(thoughtsList) <= 5
        /\ \A i \in 1 .. n : thoughtsList[i] = generated[k - i + 1]

\* Seven generations are complete: the list holds five cards, the seventh
\* thought first and the third last, and the first two are gone.
C38_Witness ==
    /\ Len(generated) = 7
    /\ Len(thoughtsList) = 5
    /\ thoughtsList[1] = generated[7]
    /\ thoughtsList[5] = generated[3]
    /\ thoughtsList[1] # thoughtsList[2]
    /\ spins = 0

====
